---------------------------- MODULE Spec2Model ----------------------------
(***************************************************************************)
(* A model of the physixx 2D rigid-body core: the body builder, the        *)
(* narrow-phase contact generator (Collider::collides_with), the impulse   *)
(* solver (resolve_interpenetration), the integrator (RigidBody2D::update) *)
(* and the step loop of main.                                              *)
(*                                                                         *)
(* Numbers.  The program computes in f32.  A number of the model is a pair *)
(* <<n, d>>: <<n, 1>> is the finite value n / Q (a fixed-point grid of Q   *)
(* steps per unit, every operation rounding its exact result to the        *)
(* nearest grid point, as f32 rounds to the nearest float), and d = 0      *)
(* holds the IEEE 754 specials the code can produce by dividing by zero:   *)
(* <<1, 0>> is +inf, <<-1, 0>> is -inf and <<0, 0>> is NaN.  The sign of   *)
(* zero is not tracked (every zero is +0).                                 *)
(***************************************************************************)
EXTENDS Integers, Sequences, FiniteSets, TLC

VARIABLES objects,   \* main's objects: a sequence of [body, collider]
          pc,        \* position in the operation or loop being run
          iter,      \* solver iterations done in the current step
          contacts,  \* contacts of the current iteration still to resolve
          steps,     \* operations / simulation steps taken (bounded)
          last,      \* record of the last operation (what it read and computed)
          builder,   \* a RigidBody2DBuilder under configuration
          start      \* the objects as they were after construction

vars == <<objects, pc, iter, contacts, steps, last, builder, start>>

-----------------------------------------------------------------------------
(* f32 arithmetic *)

\* grid steps per unit: 1/60, 1/100, 1/12, 1/5, 3/10 and 9.81 are all exact
Q == 3000

Fin(n) == <<n, 1>>
PInf == <<1, 0>>
NInf == <<-1, 0>>
NaN == <<0, 0>>

IsNaN(a) == a = NaN
IsFin(a) == a[2] = 1
IsInf(a) == a[2] = 0 /\ a[1] # 0

Zero == Fin(0)
One == Fin(Q)
\* the decimal literal num/den
Lit(num, den) == Fin((num * Q) \div den)

\* the one element of a singleton set; the operators below bind their
\* operands with it (x \in {a}), so that each operand is evaluated once
The(S) == CHOOSE r \in S : TRUE

SignOf(a) == IF a[1] > 0 THEN 1 ELSE IF a[1] < 0 THEN -1 ELSE 0

\* n / d rounded to the nearest integer, halves away from zero (d > 0)
RoundDiv(n, d) ==
    IF n >= 0 THEN (n + d \div 2) \div d ELSE -((d \div 2 - n) \div d)

FNeg(a) == The({ <<-x[1], x[2]>> : x \in {a} })

FAdd(a, b) ==
    The({ IF IsNaN(x) \/ IsNaN(y) THEN NaN
          ELSE IF IsFin(x) /\ IsFin(y) THEN Fin(x[1] + y[1])
          ELSE IF IsFin(x) THEN y
          ELSE IF IsFin(y) THEN x
          ELSE IF x = y THEN x ELSE NaN      \* inf - inf is NaN
          : x \in {a}, y \in {b} })

FSub(a, b) == FAdd(a, FNeg(b))

FMul(a, b) ==
    The({ IF IsNaN(x) \/ IsNaN(y) THEN NaN
          ELSE IF IsFin(x) /\ IsFin(y) THEN Fin(RoundDiv(x[1] * y[1], Q))
          ELSE <<SignOf(x) * SignOf(y), 0>>  \* inf * 0 is NaN
          : x \in {a}, y \in {b} })

FDiv(a, b) ==
    The({ IF IsNaN(x) \/ IsNaN(y) THEN NaN
          ELSE IF IsFin(x) /\ IsFin(y) THEN
              IF y[1] = 0 THEN <<SignOf(x), 0>>  \* x / 0 is +-inf, 0 / 0 NaN
              ELSE IF y[1] > 0 THEN Fin(RoundDiv(x[1] * Q, y[1]))
              ELSE Fin(RoundDiv(-(x[1] * Q), -y[1]))
          ELSE IF IsFin(x) THEN Zero             \* x / inf
          ELSE IF IsFin(y)
              THEN <<SignOf(x) * (IF y[1] < 0 THEN -1 ELSE 1), 0>>
          ELSE NaN                               \* inf / inf
          : x \in {a}, y \in {b} })

\* the comparisons of f32: every comparison with NaN is false
FLt(a, b) ==
    \E x \in {a}, y \in {b} :
        /\ ~IsNaN(x)
        /\ ~IsNaN(y)
        /\ IF IsFin(x) /\ IsFin(y) THEN x[1] < y[1]
           ELSE IF IsFin(x) THEN y = PInf
           ELSE IF IsFin(y) THEN x = NInf
           ELSE x = NInf /\ y = PInf

FEq(a, b) == \E x \in {a}, y \in {b} : ~IsNaN(x) /\ ~IsNaN(y) /\ x = y
FLe(a, b) == \E x \in {a}, y \in {b} : FLt(x, y) \/ FEq(x, y)
FGt(a, b) == FLt(b, a)
FGe(a, b) == FLe(b, a)

\* f32::max and f32::min return the other operand when one is NaN
FMax(a, b) ==
    The({ IF IsNaN(x) THEN y ELSE IF IsNaN(y) THEN x
          ELSE IF FLt(x, y) THEN y ELSE x : x \in {a}, y \in {b} })

FMin(a, b) ==
    The({ IF IsNaN(x) THEN y ELSE IF IsNaN(y) THEN x
          ELSE IF FLt(y, x) THEN y ELSE x : x \in {a}, y \in {b} })

FAbs(a) == The({ IF x[1] < 0 THEN <<-x[1], x[2]>> ELSE x : x \in {a} })

RECURSIVE SqrtSearch(_, _, _)
\* the largest r in lo..hi with r * r <= n
SqrtSearch(n, lo, hi) ==
    IF lo >= hi THEN lo
    ELSE The({ IF mid * mid <= n THEN SqrtSearch(n, mid, hi)
               ELSE SqrtSearch(n, lo, mid - 1)
               : mid \in {(lo + hi + 1) \div 2} })

\* the integer nearest to the square root of n (0 <= n < 2^31)
ISqrt(n) ==
    The({ The({ IF m - r * r > r THEN r + 1 ELSE r
                : r \in {SqrtSearch(m, 0, IF m < 46340 THEN m ELSE 46340)} })
          : m \in {n} })

-----------------------------------------------------------------------------
(* glam::Vec2 *)

Vec(x, y) == <<x, y>>
VecZERO == Vec(Zero, Zero)
VecX == Vec(One, Zero)
VecY == Vec(Zero, One)

VAdd(u, v) ==
    The({ Vec(FAdd(p[1], q[1]), FAdd(p[2], q[2])) : p \in {u}, q \in {v} })
VNeg(u) == The({ Vec(FNeg(p[1]), FNeg(p[2])) : p \in {u} })
VSub(u, v) == VAdd(u, VNeg(v))
VScale(u, s) ==
    The({ Vec(FMul(p[1], k), FMul(p[2], k)) : p \in {u}, k \in {s} })
VDivS(u, s) ==
    The({ Vec(FDiv(p[1], k), FDiv(p[2], k)) : p \in {u}, k \in {s} })
VDot(u, v) ==
    The({ FAdd(FMul(p[1], q[1]), FMul(p[2], q[2])) : p \in {u}, q \in {v} })

\* Vec2::length: sqrt(x^2 + y^2), rounded once
VLength(u) ==
    The({ IF IsNaN(p[1]) \/ IsNaN(p[2]) THEN NaN
          ELSE IF IsInf(p[1]) \/ IsInf(p[2]) THEN PInf
          ELSE Fin(ISqrt(p[1][1] * p[1][1] + p[2][1] * p[2][1]))
          : p \in {u} })

VDistance(u, v) == VLength(VSub(u, v))

\* Vec2::normalize: the vector over its length (0/0 = NaN for the zero vector)
VNormalize(u) == The({ VDivS(p, VLength(p)) : p \in {u} })

VFinite(u) == IsFin(u[1]) /\ IsFin(u[2])

-----------------------------------------------------------------------------
(* Collider and Contact *)

Circle(offset, radius) == [kind |-> "Circle", offset |-> offset, radius |-> radius]
AABB(min, max) == [kind |-> "AABB", min |-> min, max |-> max]

\* Option<T>: None is the empty sequence, Some(x) the sequence of x alone
None == <<>>
Some(x) == <<x>>
IsSome(o) == o # None
Unwrap(o) == o[1]

Contact(point, normal, pen_depth, body_a_index, body_b_index) ==
    [point |-> point, normal |-> normal, pen_depth |-> pen_depth,
     body_a_index |-> body_a_index, body_b_index |-> body_b_index]

world_aabb(aabb, body_pos) ==
    <<VAdd(body_pos, aabb.min), VAdd(body_pos, aabb.max)>>

world_circle(circle, owner_pos) == VAdd(owner_pos, circle.offset)

\* mutant: the coordinate is not clamped into the box
nearest_coord_no_clamp(p, lo, hi) == p

\* one axis of point_aabb_nearest_point: the branch taken for p against
\* [lo, hi]; the last two branches are reached only when p is NaN
nearest_coord(p, lo, hi) ==
    IF FLe(p, hi) /\ FGe(p, lo) THEN p
    ELSE IF FLt(p, lo) THEN lo
    ELSE IF FGt(p, hi) THEN hi
    ELSE IF FGt(FSub(p, lo), FSub(hi, p)) THEN hi
    ELSE lo

point_aabb_nearest_point(point, aabb, body) ==
    LET world_min == VAdd(body.position, aabb.min)
        world_max == VAdd(body.position, aabb.max)
    IN  Vec(nearest_coord(point[1], world_min[1], world_max[1]),
            nearest_coord(point[2], world_min[2], world_max[2]))

\* mutant: no collision vector counts as zero
is_close_to_zero_never(vector) == FALSE

\* approx::abs_diff_eq!(x, 0.0): |x| <= f32::EPSILON, which on the grid is x = 0
is_close_to_zero(vector) == FEq(vector[1], Zero) /\ FEq(vector[2], Zero)

test_circle_aabb(circle, aabb, circle_body, aabb_body, circle_index, aabb_index) ==
    LET circle_world_pos == world_circle(circle, circle_body.position)
        nearest_point_to_center ==
            point_aabb_nearest_point(circle_world_pos, aabb, aabb_body)
        dist == VDistance(nearest_point_to_center, circle_world_pos)
        collision_vector == VSub(nearest_point_to_center, circle_world_pos)
        world_min == VAdd(aabb.min, aabb_body.position)
        world_max == VAdd(aabb.max, aabb_body.position)
        distance_left == FAbs(FSub(circle_world_pos[1], world_min[1]))
        distance_right == FAbs(FSub(circle_world_pos[1], world_max[1]))
        distance_bottom == FAbs(FSub(circle_world_pos[2], world_min[2]))
        distance_top == FAbs(FSub(circle_world_pos[2], world_max[2]))
        min_distance ==
            FMin(distance_left,
                 FMin(distance_right, FMin(distance_bottom, distance_top)))
        \* four independent ifs: the last one that matches wins
        n1 == IF FEq(min_distance, distance_left) THEN VNeg(VecX)
              ELSE collision_vector
        n2 == IF FEq(min_distance, distance_right) THEN VecX ELSE n1
        n3 == IF FEq(min_distance, distance_bottom) THEN VNeg(VecY) ELSE n2
        n4 == IF FEq(min_distance, distance_top) THEN VecY ELSE n3
        normal == VNormalize(IF is_close_to_zero(collision_vector)
                             THEN n4 ELSE collision_vector)
    IN  IF FLt(dist, circle.radius)
        THEN Some(Contact(nearest_point_to_center, normal,
                          FSub(circle.radius, dist), circle_index, aabb_index))
        ELSE None

\* mutant: the normal of the swapped test is returned as it is
test_aabb_circle_normal_kept(aabb, circle, aabb_body, circle_body, aabb_index, circle_index) ==
    test_circle_aabb(circle, aabb, circle_body, aabb_body,
                     aabb_index, circle_index)

\* mutant: the indices are handed on in the order of the swapped shapes
test_aabb_circle_indices_swapped(aabb, circle, aabb_body, circle_body, aabb_index, circle_index) ==
    LET con == test_circle_aabb(circle, aabb, circle_body, aabb_body,
                                circle_index, aabb_index)
    IN  IF con = None THEN None
        ELSE Some([Unwrap(con) EXCEPT !.normal = VScale(@, FNeg(One))])

test_aabb_circle(aabb, circle, aabb_body, circle_body, aabb_index, circle_index) ==
    LET con == test_circle_aabb(circle, aabb, circle_body, aabb_body,
                                aabb_index, circle_index)
    IN  IF con = None THEN None
        ELSE Some([Unwrap(con) EXCEPT !.normal = VScale(@, FNeg(One))])

\* mutant: the centres are taken at the bodies' origins, the offsets dropped
collide_circle_circle_no_offset(a, body_a, body_b, b, body_a_index, body_b_index) ==
    LET pos_a == body_a.position
        pos_b == body_b.position
        position_difference == VSub(pos_b, pos_a)
        dist == VDistance(pos_a, pos_b)
        normal == VDivS(position_difference, dist)
        surface_a == VAdd(pos_a, VScale(normal, a.radius))
        surface_b == VSub(pos_b, VScale(normal, b.radius))
        point == VScale(VAdd(surface_a, surface_b), Lit(1, 2))
    IN  IF FLt(dist, FAdd(a.radius, b.radius))
        THEN Some(Contact(point, normal,
                          FSub(FAdd(a.radius, b.radius), dist),
                          body_a_index, body_b_index))
        ELSE None

collide_circle_circle(a, body_a, body_b, b, body_a_index, body_b_index) ==
    LET pos_a == world_circle(a, body_a.position)
        pos_b == world_circle(b, body_b.position)
        position_difference == VSub(pos_b, pos_a)
        dist == VDistance(pos_a, pos_b)
        normal == VDivS(position_difference, dist)
        surface_a == VAdd(pos_a, VScale(normal, a.radius))
        surface_b == VSub(pos_b, VScale(normal, b.radius))
        point == VScale(VAdd(surface_a, surface_b), Lit(1, 2))
    IN  IF FLt(dist, FAdd(a.radius, b.radius))
        THEN Some(Contact(point, normal,
                          FSub(FAdd(a.radius, b.radius), dist),
                          body_a_index, body_b_index))
        ELSE None

\* mutant: the Y normal is never flipped
aabb_normal_y_no_flip(min_a, max_a, min_b, max_b) == VecY

\* the sign of the box-box normal along the Y axis
aabb_normal_y(min_a, max_a, min_b, max_b) ==
    LET top_penetration == FSub(max_a[2], min_b[2])
        bottom_penetration == FSub(max_b[2], min_a[2])
    IN  IF FLt(bottom_penetration, top_penetration)
        THEN VScale(VecY, FNeg(One)) ELSE VecY

\* the sign of the box-box normal along the X axis
aabb_normal_x(min_a, max_a, min_b, max_b) ==
    LET left_penetration == FSub(max_a[1], min_b[1])
        right_penetration == FSub(max_b[1], min_a[1])
    IN  IF FLt(left_penetration, right_penetration)
        THEN VScale(VecX, FNeg(One)) ELSE VecX

collide_aabb_aabb(a, body_a, body_b, b, body_a_index, body_b_index) ==
    LET min_a == world_aabb(a, body_a.position)[1]
        max_a == world_aabb(a, body_a.position)[2]
        min_b == world_aabb(b, body_b.position)[1]
        max_b == world_aabb(b, body_b.position)[2]
        is_colliding == /\ FGe(max_a[1], min_b[1])
                        /\ FGe(max_b[1], min_a[1])
                        /\ FGe(max_a[2], min_b[2])
                        /\ FGe(max_b[2], min_a[2])
        overlap_min == Vec(FMax(min_a[1], min_b[1]), FMax(min_a[2], min_b[2]))
        overlap_max == Vec(FMin(max_a[1], max_b[1]), FMin(max_a[2], max_b[2]))
        contact_point == VScale(VAdd(overlap_min, overlap_max), Lit(1, 2))
        x_overlap == FSub(FMin(max_a[1], max_b[1]), FMax(min_a[1], min_b[1]))
        y_overlap == FSub(FMin(max_a[2], max_b[2]), FMax(min_a[2], min_b[2]))
        depth == FMin(x_overlap, y_overlap)
        normal == IF FGt(x_overlap, y_overlap)
                  THEN aabb_normal_y(min_a, max_a, min_b, max_b)
                  ELSE aabb_normal_x(min_a, max_a, min_b, max_b)
    IN  IF ~is_colliding THEN None
        ELSE IF FLt(depth, Zero) THEN None
        ELSE Some(Contact(contact_point, normal, depth,
                          body_a_index, body_b_index))

collides_with(a, body_a, body_b, b, body_a_index, body_b_index) ==
    CASE a.kind = "Circle" /\ b.kind = "Circle" ->
            collide_circle_circle(a, body_a, body_b, b, body_a_index, body_b_index)
      [] a.kind = "AABB" /\ b.kind = "Circle" ->
            test_aabb_circle(a, b, body_a, body_b, body_a_index, body_b_index)
      [] a.kind = "Circle" /\ b.kind = "AABB" ->
            test_circle_aabb(a, b, body_a, body_b, body_a_index, body_b_index)
      [] a.kind = "AABB" /\ b.kind = "AABB" ->
            collide_aabb_aabb(a, body_a, body_b, b, body_a_index, body_b_index)

-----------------------------------------------------------------------------
(* RigidBody2DBuilder and RigidBody2D *)

RigidBody2DBuilder_new ==
    [position |-> VecZERO, angle |-> Zero, vel |-> VecZERO,
     angular_vel |-> Zero, accum_force |-> VecZERO, accum_torque |-> Zero,
     inverse_mass |-> One, inverse_inertia |-> One, is_static |-> FALSE,
     shape |-> None, restitution |-> Lit(1, 2), mu |-> Lit(3, 10)]

with_position(b, position) == [b EXCEPT !.position = position]
with_angle(b, angle) == [b EXCEPT !.angle = angle]
with_shape(b, shape) == [b EXCEPT !.shape = Some(shape)]
with_inverse_mass(b, inv_mass) == [b EXCEPT !.inverse_mass = inv_mass]
with_angular_vel(b, ang_vel) == [b EXCEPT !.angular_vel = ang_vel]
with_vel(b, vel) == [b EXCEPT !.vel = vel]
make_static(b) == [b EXCEPT !.is_static = TRUE]
with_restitution(b, restitution) == [b EXCEPT !.restitution = restitution]

\* the value build stores in inverse_inertia for a non-static body with a shape
shape_inertia(shape, inverse_mass) ==
    LET m == FDiv(One, inverse_mass)
    IN  IF shape.kind = "AABB"
        THEN LET h == FAbs(FSub(shape.max[2], shape.min[2]))
                 w == FAbs(FSub(shape.max[1], shape.min[1]))
             IN  FMul(FMul(FDiv(One, Lit(12, 1)), m),
                      FAdd(FMul(w, w), FMul(h, h)))
        ELSE FMul(FMul(FMul(Lit(1, 2), m), shape.radius), shape.radius)

\* mutant: the static branch does not return, so the shape's inertia is
\* computed for a static body too
build_static_falls_through(b) ==
    LET rb == [position |-> b.position, angle |-> b.angle,
               angular_vel |-> b.angular_vel, vel |-> b.vel,
               accum_force |-> b.accum_force, accum_torque |-> b.accum_torque,
               inverse_mass |-> IF b.is_static THEN Zero ELSE b.inverse_mass,
               inverse_inertia |-> IF b.is_static THEN Zero ELSE b.inverse_inertia,
               is_static |-> b.is_static, restitution |-> b.restitution,
               mu |-> b.mu]
    IN  IF b.shape # None
        THEN [rb EXCEPT !.inverse_inertia =
                            shape_inertia(Unwrap(b.shape), b.inverse_mass)]
        ELSE rb

build(b) ==
    LET rb == [position |-> b.position, angle |-> b.angle,
               angular_vel |-> b.angular_vel, vel |-> b.vel,
               accum_force |-> b.accum_force, accum_torque |-> b.accum_torque,
               inverse_mass |-> b.inverse_mass,
               inverse_inertia |-> b.inverse_inertia,
               is_static |-> b.is_static, restitution |-> b.restitution,
               mu |-> b.mu]
    IN  IF rb.is_static
        THEN [rb EXCEPT !.inverse_mass = Zero, !.inverse_inertia = Zero]
        ELSE IF b.shape # None
        THEN [rb EXCEPT !.inverse_inertia =
                            shape_inertia(Unwrap(b.shape), b.inverse_mass)]
        ELSE rb

\* how a call of build ends: it has no panic!, assert! or unwrap, and the f32
\* division 1.0 / inverse_mass does not trap, so it always returns its body
build_outcome(b) == "returned"

\* mutant: the force is not accumulated
apply_force_dropped(body, force) == body

apply_force(body, force) ==
    [body EXCEPT !.accum_force = VAdd(@, force)]

\* mutant: the impulse corrects the position too
apply_impulse_and_shift(body, impulse) ==
    [body EXCEPT !.vel = VAdd(@, VScale(impulse, body.inverse_mass)),
                 !.position = VAdd(@, VScale(impulse, body.inverse_mass))]

\* mutant: the impulse is not scaled by the body's inverse mass
apply_impulse_unscaled(body, impulse) ==
    [body EXCEPT !.vel = VAdd(@, impulse)]

apply_impulse(body, impulse) ==
    [body EXCEPT !.vel = VAdd(@, VScale(impulse, body.inverse_mass))]

\* main passes dt = 1. / 60. to the solver and the integrator
dt == Lit(1, 60)

\* mutant: explicit Euler, the position advanced with the old velocity
update_explicit_euler(body, h) ==
    IF FEq(body.inverse_mass, Zero) \/ body.is_static THEN body
    ELSE LET new_vel ==
                 VAdd(body.vel,
                      VScale(body.accum_force, FMul(h, body.inverse_mass)))
             new_pos == VAdd(body.position, VScale(body.vel, h))
             new_ang_vel ==
                 FAdd(body.angular_vel,
                      FMul(FMul(h, body.inverse_inertia), body.accum_torque))
             new_angle == FAdd(body.angle, FMul(new_ang_vel, h))
         IN  [body EXCEPT !.position = new_pos, !.angle = new_angle,
                          !.angular_vel = new_ang_vel, !.vel = new_vel,
                          !.accum_force = VecZERO, !.accum_torque = Zero]

update(body, h) ==
    IF FEq(body.inverse_mass, Zero) \/ body.is_static THEN body
    ELSE LET new_vel ==
                 VAdd(body.vel,
                      VScale(body.accum_force, FMul(h, body.inverse_mass)))
             new_pos == VAdd(body.position, VScale(new_vel, h))
             new_ang_vel ==
                 FAdd(body.angular_vel,
                      FMul(FMul(h, body.inverse_inertia), body.accum_torque))
             new_angle == FAdd(body.angle, FMul(new_ang_vel, h))
         IN  [body EXCEPT !.position = new_pos, !.angle = new_angle,
                          !.angular_vel = new_ang_vel, !.vel = new_vel,
                          !.accum_force = VecZERO, !.accum_torque = Zero]

-----------------------------------------------------------------------------
(* Object, the solver and the step of main *)

Object(body, collider) == [body |-> body, collider |-> collider]

gravity_acceleration == Vec(Zero, FNeg(Lit(981, 100)))

slop == Lit(1, 100)
bias_factor == Lit(1, 5)

\* the quantities resolve_interpenetration computes for a contact
v_n_of(body_a, body_b, contact) ==
    VDot(VSub(body_b.vel, body_a.vel), contact.normal)

\* mutant: the bias has no slop
bias_vel_of_no_slop(contact, h) ==
    FMul(FDiv(bias_factor, h), FMax(Zero, contact.pen_depth))

bias_vel_of(contact, h) ==
    FMul(FDiv(bias_factor, h), FMax(Zero, FSub(contact.pen_depth, slop)))

k_n_of(body_a, body_b) == FAdd(body_a.inverse_mass, body_b.inverse_mass)

\* mutant: the impulse magnitude is not clamped at zero
p_n_of_unclamped(body_a, body_b, contact, h) ==
    LET restitution == FMul(body_a.restitution, body_b.restitution)
    IN  FDiv(FMul(FAdd(One, restitution),
                  FAdd(FNeg(v_n_of(body_a, body_b, contact)),
                       bias_vel_of(contact, h))),
             k_n_of(body_a, body_b))

p_n_of(body_a, body_b, contact, h) ==
    LET restitution == FMul(body_a.restitution, body_b.restitution)
    IN  FMax(FDiv(FMul(FAdd(One, restitution),
                       FAdd(FNeg(v_n_of(body_a, body_b, contact)),
                            bias_vel_of(contact, h))),
                  k_n_of(body_a, body_b)),
             Zero)

\* the impulse step on body A and on body B
impulse_a(body_a, p) ==
    IF ~body_a.is_static THEN apply_impulse(body_a, VNeg(p)) ELSE body_a

impulse_b(body_b, p) ==
    IF ~body_b.is_static THEN apply_impulse(body_b, p) ELSE body_b

resolve_interpenetration(objs, contact, h) ==
    LET body_a == objs[contact.body_a_index].body
        body_b == objs[contact.body_b_index].body
        p == VScale(contact.normal, p_n_of(body_a, body_b, contact, h))
    IN  [objs EXCEPT ![contact.body_a_index].body = impulse_a(body_a, p),
                     ![contact.body_b_index].body = impulse_b(body_b, p)]

\* the contacts of the pairs (i, j), i < j, in the order of the two loops
RECURSIVE pair_contacts(_, _, _)
pair_contacts(objs, i, j) ==
    IF i > Len(objs) THEN <<>>
    ELSE IF j > Len(objs) THEN pair_contacts(objs, i + 1, i + 2)
    ELSE collides_with(objs[i].collider, objs[i].body, objs[j].body,
                       objs[j].collider, i, j)
         \o pair_contacts(objs, i, j + 1)

check_collision(objs) == pair_contacts(objs, 1, 2)

RECURSIVE gravity_from(_, _)
gravity_from(objs, i) ==
    IF i > Len(objs) THEN objs
    ELSE gravity_from(
             [objs EXCEPT ![i].body =
                 apply_force(@, VDivS(gravity_acceleration, @.inverse_mass))],
             i + 1)

apply_gravity(objs) == gravity_from(objs, 1)

update_all(objs, h) == [i \in 1..Len(objs) |-> [objs[i] EXCEPT !.body = update(@, h)]]

-----------------------------------------------------------------------------
(* Inputs *)

\* coordinates of the collision inputs run over -MaxCoord..MaxCoord half units
MaxCoord == 5

Half(k) == Fin(k * (Q \div 2))
HalfVec(i, j) == Vec(Half(i), Half(j))

NoOp == [op |-> "none"]

\* a body as main constructs one: a builder given its shape and position
BodyAt(shape, position) ==
    build(with_position(with_shape(RigidBody2DBuilder_new, shape), position))

ObjectAt(shape, position) == Object(BodyAt(shape, position), shape)

ColliderSet ==
    { Circle(VecZERO, Half(2)),
      Circle(HalfVec(1, 0), Half(3)),
      AABB(HalfVec(-2, -2), HalfVec(2, 2)),
      AABB(HalfVec(0, -2), HalfVec(3, 1)) }

PositionsA == { VecZERO, HalfVec(1, -1) }
PositionsB == { HalfVec(i, j) : i, j \in -MaxCoord..MaxCoord }

-----------------------------------------------------------------------------
(* The contact generator applied to a pair of objects, in both orders *)

InitCollide ==
    /\ \E ca, cb \in ColliderSet, pa \in PositionsA, pb \in PositionsB :
           objects = <<ObjectAt(ca, pa), ObjectAt(cb, pb)>>
    /\ pc = "pair"
    /\ iter = 0
    /\ contacts = <<>>
    /\ steps = 0
    /\ last = NoOp
    /\ builder = RigidBody2DBuilder_new
    /\ start = objects

\* collides_with(A, B) and collides_with(B, A) on the pair
Collide ==
    /\ pc = "pair"
    /\ last' = [op |-> "collide",
                ab |-> collides_with(objects[1].collider, objects[1].body,
                                     objects[2].body, objects[2].collider, 1, 2),
                ba |-> collides_with(objects[2].collider, objects[2].body,
                                     objects[1].body, objects[1].collider, 2, 1)]
    /\ pc' = "tested"
    /\ UNCHANGED <<objects, iter, contacts, steps, builder, start>>

NextCollide == Collide

SpecCollide == InitCollide /\ [][NextCollide]_vars

-----------------------------------------------------------------------------
(* The builder: any sequence of configuration calls, then build *)

\* configuration calls made on one builder before build
MaxCalls == 3

ShapeSet ==
    { Circle(VecZERO, Half(2)),
      Circle(VecZERO, Half(4)),
      AABB(HalfVec(-2, -2), HalfVec(2, 2)),
      AABB(HalfVec(0, -2), HalfVec(3, 1)) }

InverseMassSet == { One, Lit(1, 2), Lit(2, 1), Zero }

InitBuild ==
    /\ objects = <<>>
    /\ pc = "config"
    /\ iter = 0
    /\ contacts = <<>>
    /\ steps = 0
    /\ last = [op |-> "config", calls |-> <<>>]
    /\ builder = RigidBody2DBuilder_new
    /\ start = <<>>

\* one configuration call: the builder it yields and the call's name
Configure(b, name) ==
    /\ pc = "config"
    /\ steps < MaxCalls
    /\ builder' = b
    /\ last' = [last EXCEPT !.calls = Append(@, name)]
    /\ steps' = steps + 1
    /\ UNCHANGED <<objects, pc, iter, contacts, start>>

WithShape == \E s \in ShapeSet : Configure(with_shape(builder, s), "with_shape")

WithInverseMass ==
    \E w \in InverseMassSet :
        Configure(with_inverse_mass(builder, w), "with_inverse_mass")

MakeStatic == Configure(make_static(builder), "make_static")

WithPosition ==
    Configure(with_position(builder, HalfVec(2, 1)), "with_position")

WithVel == Configure(with_vel(builder, HalfVec(0, -2)), "with_vel")

WithRestitution == Configure(with_restitution(builder, One), "with_restitution")

Build ==
    /\ pc = "config"
    /\ pc' = "built"
    /\ last' = [op |-> "build", calls |-> last.calls, from |-> builder,
                outcome |-> build_outcome(builder), body |-> build(builder)]
    /\ UNCHANGED <<objects, iter, contacts, steps, builder, start>>

NextBuild ==
    \/ WithShape
    \/ WithInverseMass
    \/ MakeStatic
    \/ WithPosition
    \/ WithVel
    \/ WithRestitution
    \/ Build

SpecBuild == InitBuild /\ [][NextBuild]_vars

-----------------------------------------------------------------------------
(* The solver and the integrator applied in any order to a small scene: a  *)
(* circle over a floor box, in either order in the collection              *)

\* operations applied to a scene
MaxOps == 3

\* k hundredths of a unit
Hundredth(k) == Fin(k * (Q \div 100))

SceneCircle == Circle(VecZERO, Half(2))
SceneFloor == AABB(Vec(Zero, Half(-2)), Vec(Half(8), Zero))

\* depths of the circle in the floor: under slop, slop, above it; -50: apart
DepthSet == { 0, 1, 20, 50, -50 }
VelSet == { VecZERO, Vec(Zero, Half(2)), Vec(Zero, Half(-2)), Vec(Zero, Half(6)) }

\* the circle, its lowest point pen hundredths below the floor's top
CircleBody(pen, vel, inv_mass) ==
    build(with_inverse_mass(
              with_restitution(
                  with_vel(
                      with_position(
                          with_shape(RigidBody2DBuilder_new, SceneCircle),
                          Vec(Half(4), FSub(Half(2), Hundredth(pen)))),
                      vel),
                  One),
              inv_mass))

\* the floor: static as in main, or a dynamic box, or one of inverse mass 0
FloorBody(how) ==
    LET b == with_restitution(
                 with_position(with_shape(RigidBody2DBuilder_new, SceneFloor),
                               VecZERO),
                 Lit(3, 10))
    IN  CASE how = "static" -> build(make_static(b))
          [] how = "dynamic" -> build(b)
          [] how = "massless" -> build(with_inverse_mass(b, Zero))

SceneSet ==
    { IF circle_first
      THEN <<Object(CircleBody(pen, vel, w), SceneCircle),
             Object(FloorBody(how), SceneFloor)>>
      ELSE <<Object(FloorBody(how), SceneFloor),
             Object(CircleBody(pen, vel, w), SceneCircle)>> :
        circle_first \in BOOLEAN, pen \in DepthSet, vel \in VelSet,
        w \in { One, Zero }, how \in { "static", "dynamic", "massless" } }

ForceSet == { Vec(Half(4), Half(-10)) }

InitSolve ==
    /\ objects \in SceneSet
    /\ pc = "ops"
    /\ iter = 0
    /\ contacts = <<>>
    /\ steps = 0
    /\ last = NoOp
    /\ builder = RigidBody2DBuilder_new
    /\ start = objects

\* body.apply_force(force) on one body
Force ==
    /\ pc = "ops" /\ steps < MaxOps
    /\ \E i \in 1..Len(objects), f \in ForceSet :
           objects' = [objects EXCEPT ![i].body = apply_force(@, f)]
    /\ last' = [op |-> "force"]
    /\ steps' = steps + 1
    /\ UNCHANGED <<pc, iter, contacts, builder, start>>

\* apply_gravity(&mut objects)
Gravity ==
    /\ pc = "ops" /\ steps < MaxOps
    /\ objects' = apply_gravity(objects)
    /\ last' = [op |-> "gravity"]
    /\ steps' = steps + 1
    /\ UNCHANGED <<pc, iter, contacts, builder, start>>

\* what a call of resolve_interpenetration on contact c reads and computes
ResolveRecord(objs, c, run) ==
    LET body_a == objs[c.body_a_index].body
        body_b == objs[c.body_b_index].body
    IN  [op |-> "resolve", contact |-> c, before |-> objs, run |-> run,
         v_n |-> v_n_of(body_a, body_b, c),
         bias_vel |-> bias_vel_of(c, dt),
         k_n |-> k_n_of(body_a, body_b),
         p_n |-> p_n_of(body_a, body_b, c, dt)]

\* resolve_interpenetration on one of the contacts check_collision returns
Resolve ==
    /\ pc = "ops" /\ steps < MaxOps
    /\ \E k \in 1..Len(check_collision(objects)) :
           LET c == check_collision(objects)[k]
           IN  /\ objects' = resolve_interpenetration(objects, c, dt)
               /\ last' = ResolveRecord(objects, c,
                              IF last.op = "resolve" THEN last.run + 1 ELSE 1)
    /\ steps' = steps + 1
    /\ UNCHANGED <<pc, iter, contacts, builder, start>>

\* body.update(dt) on every body, as main's loop does
Update ==
    /\ pc = "ops" /\ steps < MaxOps
    /\ objects' = update_all(objects, dt)
    /\ last' = [op |-> "update"]
    /\ steps' = steps + 1
    /\ UNCHANGED <<pc, iter, contacts, builder, start>>

NextSolve ==
    \/ Force
    \/ Gravity
    \/ Resolve
    \/ Update

SpecSolve == InitSolve /\ [][NextSolve]_vars

-----------------------------------------------------------------------------
(* The step loop of main: apply_gravity, then Iterations passes of         *)
(* check_collision and resolve_interpenetration over its contacts, then    *)
(* update on every body                                                    *)

Iterations == 15

\* simulation steps taken from a head-on scene
MaxSteps == 2

\* apply_gravity(&mut objects), then the first solver iteration begins
StepGravity ==
    /\ pc = "gravity"
    /\ objects' = apply_gravity(objects)
    /\ iter' = 0
    /\ pc' = "check"
    /\ last' = [op |-> "gravity"]
    /\ UNCHANGED <<contacts, steps, builder, start>>

\* let contacts = check_collision(&mut objects)
CheckCollision ==
    /\ pc = "check"
    /\ contacts' = check_collision(objects)
    /\ pc' = "resolve"
    /\ last' = [op |-> "check"]
    /\ UNCHANGED <<objects, iter, steps, builder, start>>

\* resolve_interpenetration on the next contact of the iteration
ResolveNext ==
    /\ pc = "resolve"
    /\ contacts # <<>>
    /\ objects' = resolve_interpenetration(objects, Head(contacts), dt)
    /\ contacts' = Tail(contacts)
    /\ last' = ResolveRecord(objects, Head(contacts), 1)
    /\ UNCHANGED <<pc, iter, steps, builder, start>>

\* the contacts are used up: the next iteration, or the integration
EndIteration ==
    /\ pc = "resolve"
    /\ contacts = <<>>
    /\ iter' = iter + 1
    /\ pc' = IF iter + 1 < Iterations THEN "check" ELSE "update"
    /\ last' = [op |-> "iterated"]
    /\ UNCHANGED <<objects, contacts, steps, builder, start>>

\* update(dt) on every object, ending one of at most MaxSteps steps
StepUpdate ==
    /\ pc = "update"
    /\ steps < MaxSteps
    /\ objects' = update_all(objects, dt)
    /\ pc' = "gravity"
    /\ steps' = steps + 1
    /\ last' = [op |-> "update"]
    /\ UNCHANGED <<iter, contacts, builder, start>>

\* update(dt) on every object, in the loop that never ends
Integrate ==
    /\ pc = "update"
    /\ objects' = update_all(objects, dt)
    /\ pc' = "gravity"
    /\ last' = [op |-> "update"]
    /\ UNCHANGED <<iter, contacts, steps, builder, start>>

\* a circle of the head-on scene: radius r, inverse mass w, restitution 1
HeadOnBody(r, w, x, v) ==
    build(with_inverse_mass(
              with_restitution(
                  with_vel(
                      with_position(
                          with_shape(RigidBody2DBuilder_new, Circle(VecZERO, r)),
                          Vec(x, Half(3))),
                      Vec(v, Zero)),
                  One),
              w))

\* two equal circles approaching head-on at speed v, overlapping by pen
\* hundredths
HeadOnSet ==
    { <<Object(HeadOnBody(r, w, Zero, v), Circle(VecZERO, r)),
        Object(HeadOnBody(r, w, FSub(FAdd(r, r), Hundredth(pen)), FNeg(v)),
               Circle(VecZERO, r))>> :
        r \in { Half(2), Half(3) }, w \in { Lit(1, 2), One, Lit(2, 1) },
        v \in { Half(2), Half(5) }, pen \in { 1, 10, 50 } }

InitStep ==
    /\ objects \in HeadOnSet
    /\ pc = "gravity"
    /\ iter = 0
    /\ contacts = <<>>
    /\ steps = 0
    /\ last = NoOp
    /\ builder = RigidBody2DBuilder_new
    /\ start = objects

NextStep ==
    \/ StepGravity
    \/ CheckCollision
    \/ ResolveNext
    \/ EndIteration
    \/ StepUpdate

SpecStep == InitStep /\ [][NextStep]_vars

\* one body and one call of update(h) on it.  The body is built by the
\* builder and given a force; accum_torque is a public field that only its
\* owner writes (the repository has no apply_torque), so it is an input here
IntegrateShapes == { None, Some(Circle(VecZERO, Half(2))) }
IntegrateSteps == { dt, Lit(1, 10) }

IntegrateBody(shape, static, w, vel, ang_vel, force, torque) ==
    LET b0 == with_angular_vel(
                  with_angle(
                      with_vel(
                          with_position(
                              with_inverse_mass(RigidBody2DBuilder_new, w),
                              HalfVec(2, 4)),
                          vel),
                      Half(1)),
                  ang_vel)
        b1 == IF shape = None THEN b0 ELSE with_shape(b0, Unwrap(shape))
        b2 == IF static THEN make_static(b1) ELSE b1
    IN  [apply_force(build(b2), force) EXCEPT !.accum_torque = torque]

IntegrateSet ==
    { <<Object(IntegrateBody(shape, static, w, vel, ang_vel, force, torque),
               shape)>> :
        shape \in IntegrateShapes, static \in BOOLEAN,
        w \in { Zero, Lit(1, 2), One, Lit(2, 1) },
        vel \in { VecZERO, HalfVec(2, -2) },
        ang_vel \in { Zero, Half(3) },
        force \in { VecZERO, Vec(Half(4), Lit(-30, 1)) },
        torque \in { Zero, Lit(3, 1) } }

InitIntegrate ==
    /\ objects \in IntegrateSet
    /\ pc = "body"
    /\ iter = 0
    /\ contacts = <<>>
    /\ steps = 0
    /\ last = NoOp
    /\ builder = RigidBody2DBuilder_new
    /\ start = objects

\* body.update(h)
UpdateBody ==
    /\ pc = "body"
    /\ \E h \in IntegrateSteps :
           /\ objects' = [objects EXCEPT ![1].body = update(@, h)]
           /\ last' = [op |-> "integrate", before |-> objects[1].body, h |-> h]
    /\ pc' = "integrated"
    /\ UNCHANGED <<iter, contacts, steps, builder, start>>

NextIntegrate == UpdateBody

SpecIntegrate == InitIntegrate /\ [][NextIntegrate]_vars

\* a pile: three objects, circles and boxes in every order, the first static
\* or not, the second moving or not, the third on the pile or away from it
PileShapes == { Circle(VecZERO, Half(2)), AABB(HalfVec(-2, -2), HalfVec(2, 2)) }

PileBody(shape, position, vel, static) ==
    LET b == with_vel(with_position(with_shape(RigidBody2DBuilder_new, shape),
                                    position),
                      vel)
    IN  build(IF static THEN make_static(b) ELSE b)

PileSet ==
    { <<Object(PileBody(s1, VecZERO, VecZERO, static), s1),
        Object(PileBody(s2, p2, v2, FALSE), s2),
        Object(PileBody(s3, p3, VecZERO, FALSE), s3)>> :
        s1 \in PileShapes, s2 \in PileShapes, s3 \in PileShapes,
        static \in BOOLEAN,
        p2 \in { HalfVec(3, 0), HalfVec(1, 3) },
        v2 \in { VecZERO, HalfVec(-2, 0) },
        p3 \in { HalfVec(1, -3), HalfVec(6, 1), HalfVec(12, 12) } }

InitPile ==
    /\ objects \in PileSet
    /\ pc = "gravity"
    /\ iter = 0
    /\ contacts = <<>>
    /\ steps = 0
    /\ last = NoOp
    /\ builder = RigidBody2DBuilder_new
    /\ start = objects

SpecPile == InitPile /\ [][NextStep]_vars

\* a pair: two dynamic bodies, circles and boxes in either order, of equal or
\* unequal inverse masses, the second on the same centre as the first, half
\* a unit off it, beside it or above it, at rest or approaching
PairShapes == { Circle(VecZERO, Half(2)), AABB(HalfVec(-2, -2), HalfVec(2, 2)) }
PairInverseMasses == { Lit(1, 2), One, Lit(2, 1) }

PairBody(shape, position, vel, inv_mass) ==
    build(with_inverse_mass(
              with_vel(with_position(with_shape(RigidBody2DBuilder_new, shape),
                                     position),
                       vel),
              inv_mass))

PairSet ==
    { <<Object(PairBody(sa, VecZERO, va, wa), sa),
        Object(PairBody(sb, pb, vb, wb), sb)>> :
        sa \in PairShapes, sb \in PairShapes,
        wa \in PairInverseMasses, wb \in PairInverseMasses,
        pb \in { VecZERO, HalfVec(1, 0), HalfVec(3, 0), HalfVec(1, 3) },
        va \in { VecZERO, HalfVec(2, 0) },
        vb \in { VecZERO, HalfVec(-2, 1) } }

InitPair ==
    /\ objects \in PairSet
    /\ pc = "gravity"
    /\ iter = 0
    /\ contacts = <<>>
    /\ steps = 0
    /\ last = NoOp
    /\ builder = RigidBody2DBuilder_new
    /\ start = objects

SpecPair == InitPair /\ [][NextStep]_vars

\* main's scene: the circle of radius 3 at (10, 10) and the static floor
\* (the third object, a box at (-30, 10) beside the floor, meets neither)
MainCircle == Circle(VecZERO, Lit(3, 1))
MainFloor == AABB(Vec(Zero, Lit(-10, 1)), Vec(Lit(200, 1), Zero))

MainObjects ==
    <<Object(build(with_inverse_mass(
                       with_restitution(
                           with_position(
                               with_shape(RigidBody2DBuilder_new, MainCircle),
                               Vec(Lit(10, 1), Lit(10, 1))),
                           One),
                       One)),
             MainCircle),
      Object(build(with_restitution(
                       with_shape(
                           with_position(make_static(RigidBody2DBuilder_new),
                                         VecZERO),
                           MainFloor),
                       Lit(3, 10))),
             MainFloor)>>

InitFall ==
    /\ objects = MainObjects
    /\ pc = "gravity"
    /\ iter = 0
    /\ contacts = <<>>
    /\ steps = 0
    /\ last = NoOp
    /\ builder = RigidBody2DBuilder_new
    /\ start = objects

NextFall ==
    \/ StepGravity
    \/ CheckCollision
    \/ ResolveNext
    \/ EndIteration
    \/ Integrate

\* main's loop runs for ever: a step that can be taken is taken
SpecFall == InitFall /\ [][NextFall]_vars /\ WF_vars(NextFall)

-----------------------------------------------------------------------------
(* Claims about the contact generator (SpecCollide).  The geometry of the  *)
(* pair is restated here in plain integers (grid steps), apart from the    *)
(* operators that model the code.                                          *)

Abs(n) == IF n < 0 THEN -n ELSE n

\* tolerance of the unit-length and direction checks, in grid steps
Eps == Q \div 1000

Tested == last.op = "collide"
KindA == objects[1].collider.kind
KindB == objects[2].collider.kind

\* world centre of the circle of object i, axis k
Centre(i, k) == objects[i].body.position[k][1] + objects[i].collider.offset[k][1]
Radius(i) == objects[i].collider.radius[1]
\* world extents of the box of object i, axis k
WorldMin(i, k) == objects[i].body.position[k][1] + objects[i].collider.min[k][1]
WorldMax(i, k) == objects[i].body.position[k][1] + objects[i].collider.max[k][1]

CentreDX == Centre(2, 1) - Centre(1, 1)
CentreDY == Centre(2, 2) - Centre(1, 2)
CentreD2 == CentreDX * CentreDX + CentreDY * CentreDY
RadiusSum == Radius(1) + Radius(2)

\* v is a unit vector, to within Eps grid steps of length
IsUnit(v) ==
    /\ VFinite(v)
    /\ LET n2 == v[1][1] * v[1][1] + v[2][1] * v[2][1]
       IN  (Q - Eps) * (Q - Eps) <= n2 /\ n2 <= (Q + Eps) * (Q + Eps)

\* v points along (dx, dy), to within Eps grid steps across it
PointsAlong(v, dx, dy) ==
    /\ VFinite(v)
    /\ v[1][1] * dx + v[2][1] * dy > 0
    /\ Abs(v[1][1] * dy - v[2][1] * dx) <= Eps * (Abs(dx) + Abs(dy))

\* p is the depth RadiusSum - d, d the distance of the centres, to within half
\* a grid step (the rounding of the square root)
IsCircleDepth(p) ==
    /\ IsFin(p)
    /\ LET d2 == 2 * (RadiusSum - p[1])
       IN  /\ d2 >= 1
           /\ (d2 - 1) * (d2 - 1) <= 4 * CentreD2
           /\ 4 * CentreD2 <= (d2 + 1) * (d2 + 1)

Returned == { c \in { last.ab, last.ba } : c # None }

\* C3: a circle/box, box/circle or box/box pair whose overlap is zero or
\* negative gets no contact: no contact returned for such a pair has
\* pen_depth <= 0.
C3_NoContactWithoutOverlap ==
    (Tested /\ (KindA = "AABB" \/ KindB = "AABB")) =>
        \A c \in Returned : FGt(Unwrap(c).pen_depth, Zero)

\* C3 holds of the pairs with a circle: dist < radius is a strict test
C3_CircleBoxStrict ==
    (Tested /\ KindA # KindB) =>
        \A c \in Returned : FGt(Unwrap(c).pen_depth, Zero)

\* overlap of the two boxes on axis k, and the side penetrations on it
Overlap(k) ==
    (IF WorldMax(1, k) < WorldMax(2, k) THEN WorldMax(1, k) ELSE WorldMax(2, k))
    - (IF WorldMin(1, k) > WorldMin(2, k) THEN WorldMin(1, k) ELSE WorldMin(2, k))
SeparatingAxis == IF Overlap(1) > Overlap(2) THEN 2 ELSE 1
SidesDiffer ==
    WorldMax(1, SeparatingAxis) - WorldMin(2, SeparatingAxis)
        # WorldMax(2, SeparatingAxis) - WorldMin(1, SeparatingAxis)

SameTest ==
    /\ (last.ab # None) <=> (last.ba # None)
    /\ last.ab # None => Unwrap(last.ab).pen_depth = Unwrap(last.ba).pen_depth

\* C4 as claimed: box-box testing is symmetric: (A, B) yields a contact iff
\* (B, A) does, with the same pen_depth and antiparallel normals.
C4_AabbSymmetric ==
    (Tested /\ KindA = "AABB" /\ KindB = "AABB") =>
        /\ SameTest
        /\ last.ab # None =>
               Unwrap(last.ab).normal = VNeg(Unwrap(last.ba).normal)

\* C4 as amended: the normals are antiparallel when the two side-penetrations
\* on the separating axis differ; when they are equal both orders return the
\* same normal, the positive axis.
C4_AabbSymmetricUnlessTie ==
    (Tested /\ KindA = "AABB" /\ KindB = "AABB") =>
        /\ SameTest
        /\ last.ab # None =>
               IF SidesDiffer
               THEN Unwrap(last.ab).normal = VNeg(Unwrap(last.ba).normal)
               ELSE /\ Unwrap(last.ab).normal = Unwrap(last.ba).normal
                    /\ Unwrap(last.ab).normal[SeparatingAxis] = One

\* two overlapping boxes separated along Y whose side penetrations differ
C4_Witness ==
    /\ Tested /\ KindA = "AABB" /\ KindB = "AABB"
    /\ last.ab # None /\ last.ba # None
    /\ SeparatingAxis = 2 /\ SidesDiffer
    /\ FGt(Unwrap(last.ab).pen_depth, Zero)
    /\ Unwrap(last.ab).normal = VNeg(VecY)

-----------------------------------------------------------------------------
(* Claims about the builder (SpecBuild) *)

Built == last.op = "build"

\* position of the first call named name in the calls made, 0 if none
FirstCall(name) ==
    IF \E i \in 1..Len(last.calls) : last.calls[i] = name
    THEN CHOOSE i \in 1..Len(last.calls) :
             /\ last.calls[i] = name
             /\ \A j \in 1..(i - 1) : last.calls[j] # name
    ELSE 0

\* C9: every body build returns with is_static = true has inverse_mass = 0
\* and inverse_inertia = 0, whatever calls configured the builder and in
\* whatever order.
C9_StaticHasZeroInverses ==
    (Built /\ last.body.is_static) =>
        /\ last.body.inverse_mass = Zero
        /\ last.body.inverse_inertia = Zero

\* a static body built after make_static was followed by with_inverse_mass of
\* a non-zero value and by with_shape
C9_Witness ==
    /\ Built /\ last.body.is_static
    /\ FirstCall("make_static") = 1
    /\ FirstCall("with_inverse_mass") > 1
    /\ FirstCall("with_shape") > 1
    /\ last.from.inverse_mass # Zero
    /\ last.from.inverse_mass # One
    /\ last.body.inverse_mass = Zero

\* the moment of inertia of the shape for mass m
MomentOfInertia(shape, m) ==
    IF shape.kind = "AABB"
    THEN LET w == FAbs(FSub(shape.max[1], shape.min[1]))
             h == FAbs(FSub(shape.max[2], shape.min[2]))
         IN  FMul(FMul(Lit(1, 12), m), FAdd(FMul(w, w), FMul(h, h)))
    ELSE FMul(FMul(Lit(1, 2), m), FMul(shape.radius, shape.radius))

\* a non-static body built with a shape and a positive finite mass
BuiltWithShape ==
    /\ Built /\ ~last.body.is_static
    /\ last.from.shape # None
    /\ FGt(last.from.inverse_mass, Zero)

\* C10: for a non-static body built with a shape and mass m = 1/inverse_mass,
\* inverse_inertia is the reciprocal of the moment of inertia (to within 1%:
\* inverse_inertia * moment = 1).
C10_InverseInertiaIsReciprocal ==
    BuiltWithShape =>
        LET moment == MomentOfInertia(Unwrap(last.from.shape),
                                      FDiv(One, last.from.inverse_mass))
            product == FMul(last.body.inverse_inertia, moment)
        IN  /\ IsFin(product)
            /\ Abs(product[1] - Q) <= Q \div 100

\* what build stores instead: the moment of inertia itself
C10_StoresMoment ==
    BuiltWithShape =>
        last.body.inverse_inertia =
            MomentOfInertia(Unwrap(last.from.shape),
                            FDiv(One, last.from.inverse_mass))

-----------------------------------------------------------------------------
(* Claims about the solver and the integrator (SpecSolve) *)

Resolved == last.op = "resolve"

\* the last call of resolve_interpenetration left both bodies' velocities alone
VelocitiesKept ==
    /\ objects[last.contact.body_a_index].body.vel
           = last.before[last.contact.body_a_index].body.vel
    /\ objects[last.contact.body_b_index].body.vel
           = last.before[last.contact.body_b_index].body.vel

\* C1: a body with inverse_mass = 0 keeps its position and its velocity
\* through every sequence of apply_force, apply_gravity,
\* resolve_interpenetration and update calls.
C1_ImmovableKeepsPositionAndVelocity ==
    \A i \in 1..Len(objects) :
        start[i].body.inverse_mass = Zero =>
            /\ objects[i].body.position = start[i].body.position
            /\ objects[i].body.vel = start[i].body.vel

\* C1 holds of the bodies built with make_static: the solver and the
\* integrator both skip a body whose is_static flag is set
C1_StaticKeepsPositionAndVelocity ==
    \A i \in 1..Len(objects) :
        start[i].body.is_static =>
            /\ objects[i].body.position = start[i].body.position
            /\ objects[i].body.vel = start[i].body.vel

CircleOnStaticBox ==
    LET a == last.contact.body_a_index
        b == last.contact.body_b_index
    IN  \/ /\ last.before[a].collider.kind = "Circle"
           /\ last.before[b].collider.kind = "AABB"
           /\ last.before[b].body.is_static
        \/ /\ last.before[b].collider.kind = "Circle"
           /\ last.before[a].collider.kind = "AABB"
           /\ last.before[a].body.is_static

\* C6: for a contact with pen_depth <= slop between a circle at rest (vn = 0)
\* and a static box the bias velocity is zero, and each of any number of
\* successive calls of resolve_interpenetration on it leaves both velocities
\* unchanged.
C6_RestingContactInjectsNothing ==
    (/\ Resolved
     /\ CircleOnStaticBox
     /\ FLe(last.contact.pen_depth, slop)
     /\ last.v_n = Zero) =>
        /\ last.bias_vel = Zero
        /\ VelocitiesKept

\* the third successive resolution of such a contact, of depth exactly slop,
\* on a circle that can move
C6_Witness ==
    /\ Resolved
    /\ CircleOnStaticBox
    /\ last.contact.pen_depth = slop
    /\ last.v_n = Zero
    /\ last.run >= 3
    /\ FGt(last.k_n, Zero)

-----------------------------------------------------------------------------
(* Claims about the step loop (SpecStep, SpecFall) *)

\* the solver iterations of the first step are over, update is still to come
FirstStepSolved == pc = "update" /\ steps = 0

\* the bias velocity of the contact the two circles start in
StartBias == bias_vel_of(Head(check_collision(start)), dt)

\* the speed v of the head-on scene
StartSpeed == start[1].body.vel[1]

\* a is the finite number b, up to the rounding of the operations
Near(a, b) == IsFin(a) /\ IsFin(b) /\ Abs(a[1] - b[1]) <= Eps

\* C7: two circles of equal radius and mass with restitution 1 meet head-on
\* with velocities (+v, 0) and (-v, 0); after the solver iterations of the
\* step in which they first overlap A has (-(v + bias), 0) and B has
\* (v + bias, 0): the velocities are exchanged, up to the bias velocity.
C7_HeadOnExchange ==
    FirstStepSolved =>
        /\ Near(objects[1].body.vel[1], FNeg(FAdd(StartSpeed, StartBias)))
        /\ Near(objects[2].body.vel[1], FAdd(StartSpeed, StartBias))
        /\ objects[1].body.vel[2] = Zero
        /\ objects[2].body.vel[2] = Zero

\* the exchange has happened between circles of inverse mass 2 that
\* overlapped by more than slop
C7_Witness ==
    /\ FirstStepSolved
    /\ start[1].body.inverse_mass = Lit(2, 1)
    /\ FGt(StartBias, Zero)
    /\ FLt(objects[1].body.vel[1], Zero)
    /\ FGt(objects[2].body.vel[1], Zero)

\* position and velocity tolerances of "at rest": a twentieth of a unit, and
\* the velocity gravity adds in one step
RestTol == Lit(1, 20)
RestVel == FMul(FAbs(gravity_acceleration[2]), dt)

\* the circle of main is within RestTol of height y, with vertical velocity
\* within RestVel of zero
RestsAt(y) ==
    LET circle == objects[1].body
    IN  /\ FLe(FAbs(FSub(circle.position[2], y)), RestTol)
        /\ FLe(FAbs(circle.vel[2]), RestVel)

\* C8 as claimed: main's circle (radius 3, at (10, 10)) above the static floor
\* (min (0, -10), max (200, 0)) eventually reaches and stays in a state with
\* its centre at y = -10 + radius and near-zero vertical velocity.
C8_SettlesAtFloorMinPlusRadius ==
    <>[]RestsAt(FAdd(MainFloor.min[2], MainCircle.radius))

\* C8 as amended: the circle eventually reaches and stays in a state with its
\* centre at y = 0 + radius, the floor's top face (max.y) plus the radius, and
\* near-zero vertical velocity.
C8_SettlesOnFloorTop ==
    <>[]RestsAt(FAdd(MainFloor.max[2], MainCircle.radius))

\* the circle has left (10, 10) and lies at rest on the floor's top face, the
\* solver having just pushed on the contact between them
C8_Witness ==
    /\ start = MainObjects
    /\ objects[1].body.position # start[1].body.position
    /\ RestsAt(FAdd(MainFloor.max[2], MainCircle.radius))
    /\ Resolved
    /\ FGt(last.p_n, Zero)
    /\ last.contact.normal = Vec(Zero, FNeg(One))

-----------------------------------------------------------------------------
(* Further claims about the contact generator (SpecCollide) *)

\* C11: two circles whose world centres coincide (d = 0) get no contact, and
\* no circle-circle contact has a normal that is not a finite vector (the
\* result of dividing by a zero distance).
C11_CoincidentCirclesNoContact ==
    (Tested /\ KindA = "Circle" /\ KindB = "Circle") =>
        /\ CentreD2 = 0 => last.ab = None /\ last.ba = None
        /\ \A c \in Returned : VFinite(Unwrap(c).normal)

\* every circle-circle contact between centres that do not coincide has a
\* finite normal
C11_DistinctCentresFiniteNormal ==
    (Tested /\ KindA = "Circle" /\ KindB = "Circle" /\ CentreD2 > 0) =>
        \A c \in Returned : VFinite(Unwrap(c).normal)

-----------------------------------------------------------------------------
(* Claims about the solver in a collection of three bodies (SpecPile) *)

\* the fields of a body other than its velocity
SameButVel(after, before) == [after EXCEPT !.vel = before.vel] = before

\* C12: resolve_interpenetration changes nothing except the velocities of the
\* two bodies the contact names: their other fields, the colliders, and every
\* field of every other body of the collection are as they were.
C12_ResolveChangesOnlyTwoVelocities ==
    Resolved =>
        /\ Len(objects) = Len(last.before)
        /\ \A i \in 1..Len(objects) :
               /\ objects[i].collider = last.before[i].collider
               /\ SameButVel(objects[i].body, last.before[i].body)
               /\ i \notin { last.contact.body_a_index,
                             last.contact.body_b_index }
                      => objects[i] = last.before[i]

\* a contact of two bodies of a pile has been resolved with an impulse that
\* changed both their velocities, the third body looking on
C12_Witness ==
    /\ Resolved
    /\ Len(objects) = 3
    /\ FGt(last.p_n, Zero)
    /\ objects[last.contact.body_a_index].body.vel
           # last.before[last.contact.body_a_index].body.vel
    /\ objects[last.contact.body_b_index].body.vel
           # last.before[last.contact.body_b_index].body.vel

-----------------------------------------------------------------------------
(* Claims about the accumulators and the integrator *)

\* a step has ended: update has been called on every body, and the forces of
\* the next step are not yet applied
StepEnded == pc = "gravity" /\ last.op = "update"

AccumulatorsZero(body) ==
    body.accum_force = VecZERO /\ body.accum_torque = Zero

\* C13: at the end of every simulation step accum_force and accum_torque of
\* every body, static or dynamic, are zero: they are non-zero only between the
\* force application and the integration of one step.
C13_AccumulatorsZeroAfterStep ==
    StepEnded => \A i \in 1..Len(objects) : AccumulatorsZero(objects[i].body)

\* the bodies update integrates (not static, inverse_mass not 0) do end
\* every step with zero accumulators
C13_IntegratedAccumulatorsZero ==
    StepEnded =>
        \A i \in 1..Len(objects) :
            (~objects[i].body.is_static
             /\ ~FEq(objects[i].body.inverse_mass, Zero))
                => AccumulatorsZero(objects[i].body)

Integrated == last.op = "integrate"

\* after is before advanced by rate over the time k: before + rate * k, the
\* product rounded to the grid
Advanced(after, before, rate, k) ==
    /\ IsFin(after) /\ IsFin(before) /\ IsFin(rate) /\ IsFin(k)
    /\ after[1] - before[1] = RoundDiv(rate[1] * k[1], Q)

C14_StaticWitness ==
    /\ Integrated
    /\ last.before.is_static
    /\ last.before.accum_force # VecZERO
    /\ objects[1].body = last.before

-----------------------------------------------------------------------------
(* Further claims about the builder (SpecBuild) *)

\* the mass 1 / inverse_mass is a finite positive number
MassDefined(inverse_mass) == IsFin(inverse_mass) /\ FGt(inverse_mass, Zero)

\* C15: building a non-static body whose mass 1 / inverse_mass is not a
\* finite positive number (inverse_mass = 0, say) fails fast: build panics
\* instead of returning a body.
C15_MasslessDynamicBuildPanics ==
    (Built /\ ~last.from.is_static /\ ~MassDefined(last.from.inverse_mass)) =>
        last.outcome = "panicked"

\* what build returns for a non-static builder with inverse_mass = 0 and a
\* shape: a body with inverse_mass 0 and an infinite inverse_inertia
C15_ReturnsMasslessBody ==
    (/\ Built
     /\ ~last.from.is_static
     /\ last.from.inverse_mass = Zero
     /\ last.from.shape # None) =>
        /\ last.outcome = "returned"
        /\ last.body.inverse_mass = Zero
        /\ last.body.inverse_inertia = PInf

-----------------------------------------------------------------------------
(* Claims about the contacts of check_collision (SpecPile) *)

\* check_collision has just returned the contacts of the collection
Checked == last.op = "check"

ContactKinds(c) ==
    <<objects[c.body_a_index].collider.kind,
      objects[c.body_b_index].collider.kind>>

\* C16: every contact check_collision produces, whatever the pairing of
\* shapes, has body_a_index < body_b_index < objects.len() (indices counted
\* from 1 here: 1 <= a < b <= Len), so the two indices differ and
\* resolve_interpenetration's split at body_b_index finds two bodies.
C16_ContactIndicesOrdered ==
    Checked =>
        \A k \in 1..Len(contacts) :
            /\ contacts[k].body_a_index \in 1..Len(objects)
            /\ contacts[k].body_b_index \in 1..Len(objects)
            /\ contacts[k].body_a_index < contacts[k].body_b_index

\* check_collision has returned contacts of a box-circle pair, a circle-box
\* pair and a third pair of one collection
C16_Witness ==
    /\ Checked
    /\ Len(contacts) = 3
    /\ \E k \in 1..Len(contacts) : ContactKinds(contacts[k]) = <<"AABB", "Circle">>
    /\ \E k \in 1..Len(contacts) : ContactKinds(contacts[k]) = <<"Circle", "AABB">>

-----------------------------------------------------------------------------
(* Claims about the direction of contact normals (SpecCollide) *)

\* the side penetrations of boxes A (object 1) and B (object 2) on axis k:
\* A's upper side into B's lower side, and B's upper side into A's lower side
UpperPenetration(k) == WorldMax(1, k) - WorldMin(2, k)
LowerPenetration(k) == WorldMax(2, k) - WorldMin(1, k)

Axis(k) == IF k = 1 THEN VecX ELSE VecY

\* the unit vector of axis k on the side of the smaller penetration: the
\* direction from A toward B
TowardB(k) ==
    IF UpperPenetration(k) < LowerPenetration(k) THEN Axis(k) ELSE VNeg(Axis(k))

\* a contact of two boxes that overlap (its depth is positive)
BoxBoxContact ==
    /\ Tested /\ KindA = "AABB" /\ KindB = "AABB"
    /\ last.ab # None
    /\ FGt(Unwrap(last.ab).pen_depth, Zero)

\* C17: in every box-box contact whose two side-penetrations on the chosen
\* separating axis differ, the normal's sign selects the side of the smaller
\* penetration, so the normal points from box A toward box B along that axis,
\* whether the axis is X or Y.
C17_AabbNormalPointsTowardB ==
    (BoxBoxContact /\ SidesDiffer) =>
        Unwrap(last.ab).normal = TowardB(SeparatingAxis)

\* on the Y axis the normal does point from A toward B
C17_YNormalPointsTowardB ==
    (BoxBoxContact /\ SidesDiffer /\ SeparatingAxis = 2) =>
        Unwrap(last.ab).normal = TowardB(2)

\* on the X axis the normal points the other way, from B toward A
C17_XNormalPointsTowardA ==
    (BoxBoxContact /\ SidesDiffer /\ SeparatingAxis = 1) =>
        Unwrap(last.ab).normal = VNeg(TowardB(1))

-----------------------------------------------------------------------------
(* Claims about circle-box contacts (SpecCollide): the circle is object 1,  *)
(* the box object 2, and last.ab the result of collides_with(circle, box)   *)

CircleBoxTested == Tested /\ KindA = "Circle" /\ KindB = "AABB"

\* the centre's coordinate k clamped into the box's world extent
Clamped(k) ==
    IF Centre(1, k) < WorldMin(2, k) THEN WorldMin(2, k)
    ELSE IF Centre(1, k) > WorldMax(2, k) THEN WorldMax(2, k)
    ELSE Centre(1, k)

NearestPoint == Vec(Fin(Clamped(1)), Fin(Clamped(2)))

\* from the centre to the nearest point, and the square of its length
ToNearest(k) == Clamped(k) - Centre(1, k)
NearestD2 == ToNearest(1) * ToNearest(1) + ToNearest(2) * ToNearest(2)

CentreOutside == NearestD2 > 0

\* p is the depth radius - d, d the distance to the nearest point, to within
\* half a grid step (the rounding of the square root)
IsCircleBoxDepth(p) ==
    /\ IsFin(p)
    /\ LET d2 == 2 * (Radius(1) - p[1])
       IN  /\ d2 >= 1
           /\ (d2 - 1) * (d2 - 1) <= 4 * NearestD2
           /\ 4 * NearestD2 <= (d2 + 1) * (d2 + 1)

\* the contact test, depth and point C18 states (d < radius is decided to
\* within one grid step)
CircleBoxDepthAndPoint ==
    /\ NearestD2 >= Radius(1) * Radius(1) => last.ab = None
    /\ NearestD2 <= (Radius(1) - 1) * (Radius(1) - 1) => last.ab # None
    /\ last.ab # None =>
           /\ IsCircleBoxDepth(Unwrap(last.ab).pen_depth)
           /\ Unwrap(last.ab).point = NearestPoint

FaceDistance(f) ==
    CASE f = 1 -> Abs(Centre(1, 1) - WorldMin(2, 1))
      [] f = 2 -> Abs(Centre(1, 1) - WorldMax(2, 1))
      [] f = 3 -> Abs(Centre(1, 2) - WorldMin(2, 2))
      [] f = 4 -> Abs(Centre(1, 2) - WorldMax(2, 2))

FaceNormal(f) ==
    CASE f = 1 -> VNeg(VecX)
      [] f = 2 -> VecX
      [] f = 3 -> VNeg(VecY)
      [] f = 4 -> VecY

NearestFaces == { f \in 1..4 : \A g \in 1..4 : FaceDistance(f) <= FaceDistance(g) }
FirstNearestFace == CHOOSE f \in NearestFaces : \A g \in NearestFaces : f <= g
LastNearestFace == CHOOSE f \in NearestFaces : \A g \in NearestFaces : f >= g

\* the centre lies inside the box or on its boundary
CentreInside == NearestD2 = 0

\* C19 as claimed: for a circle whose centre lies inside or on the boundary
\* of the box, the contact normal is the axis-aligned normal of the face
\* nearest to the centre (left -X, right +X, bottom -Y, top +Y); when several
\* faces are equally near, the earliest of them in the order left, right,
\* bottom, top determines the normal.
C19_InsideNormalOfFirstNearestFace ==
    (CircleBoxTested /\ CentreInside) =>
        /\ last.ab # None
        /\ Unwrap(last.ab).normal = FaceNormal(FirstNearestFace)

\* C19 as amended: the same, but among equally near faces the last of them in
\* the order left, right, bottom, top determines the normal.
C19_InsideNormalOfLastNearestFace ==
    (CircleBoxTested /\ CentreInside) =>
        /\ last.ab # None
        /\ Unwrap(last.ab).normal = FaceNormal(LastNearestFace)

\* a centre inside the box equally near to its right and bottom faces, and
\* to no other
C19_Witness ==
    /\ CircleBoxTested /\ CentreInside
    /\ NearestFaces = { 2, 3 }
    /\ last.ab # None
    /\ Unwrap(last.ab).normal = VNeg(VecY)

\* a centre inside the box with a single nearest face, the left one
C19_SingleFaceWitness ==
    /\ CircleBoxTested /\ CentreInside
    /\ NearestFaces = { 1 }
    /\ last.ab # None
    /\ Unwrap(last.ab).normal = VNeg(VecX)

-----------------------------------------------------------------------------
(* Claims about the box-circle test (SpecCollide) *)

\* box is the result of collides_with(X, C, i, j) and circle that of
\* collides_with(C, X, j, i), for the box X at index i and the circle C at j
Mirrored(box, circle, i, j) ==
    /\ (box # None) <=> (circle # None)
    /\ box # None =>
           /\ Unwrap(box).point = Unwrap(circle).point
           /\ Unwrap(box).pen_depth = Unwrap(circle).pen_depth
           /\ Unwrap(box).normal = VNeg(Unwrap(circle).normal)
           /\ Unwrap(box).body_a_index = i
           /\ Unwrap(box).body_b_index = j

\* C20: box-circle is the mirror of circle-box: collides_with(X, C, i, j)
\* returns a contact iff collides_with(C, X, j, i) does, and then the two have
\* the same point and pen_depth and negated normals, and the box-circle
\* contact has body_a_index = i (the box) and body_b_index = j (the circle).
C20_BoxCircleMirrorsCircleBox ==
    Tested =>
        /\ (KindA = "AABB" /\ KindB = "Circle")
               => Mirrored(last.ab, last.ba, 1, 2)
        /\ (KindA = "Circle" /\ KindB = "AABB")
               => Mirrored(last.ba, last.ab, 2, 1)

\* a box at index 1 and a circle at index 2 that overlap from outside, the
\* box-circle normal pointing from the box to the circle off both axes
C20_Witness ==
    /\ Tested /\ KindA = "AABB" /\ KindB = "Circle"
    /\ last.ab # None /\ last.ba # None
    /\ FGt(Unwrap(last.ab).pen_depth, Zero)
    /\ FGt(Unwrap(last.ab).normal[1], Zero)
    /\ FGt(Unwrap(last.ab).normal[2], Zero)
    /\ FLt(Unwrap(last.ba).normal[1], Zero)


-----------------------------------------------------------------------------
(* Claims about contacts between two immovable bodies (SpecSolve) *)

\* neither body of the last contact resolved has an inverse mass
BothImmovable ==
    /\ last.before[last.contact.body_a_index].body.inverse_mass = Zero
    /\ last.before[last.contact.body_b_index].body.inverse_mass = Zero

\* C21: when k_n = inverse_mass_A + inverse_mass_B of a contact is 0 (both
\* bodies immovable, flagged is_static or merely built with inverse_mass 0),
\* resolve_interpenetration skips the contact: no result of a division by
\* zero is applied and both bodies' velocities are unchanged.
C21_ZeroEffectiveMassSkipped ==
    (Resolved /\ last.k_n = Zero) =>
        /\ BothImmovable
        /\ VelocitiesKept

\* what the code does instead: with k_n = 0 the impulse magnitude is
\* max(x / 0, 0), that is +inf when x = (1 + e)(-vn + bias) is positive, and
\* the body that is not flagged is_static receives it: its velocity stops
\* being finite
C21_ZeroEffectiveMassDivides ==
    (Resolved /\ last.k_n = Zero /\ last.p_n = PInf) =>
        \E i \in { last.contact.body_a_index, last.contact.body_b_index } :
            /\ ~last.before[i].body.is_static
            /\ VFinite(last.before[i].body.vel)
            /\ ~VFinite(objects[i].body.vel)

\* a contact of k_n = 0 resolved with an infinite impulse magnitude
C21_DividesWitness ==
    /\ Resolved
    /\ last.k_n = Zero
    /\ last.p_n = PInf
    /\ ~VelocitiesKept

-----------------------------------------------------------------------------
(* Claims about the contacts across the solver iterations (SpecPile) *)

\* the loop is inside the solver iterations of a step: after apply_gravity,
\* before the update of the bodies
Solving == pc \in { "check", "resolve" }

\* C22: within one simulation step check_collision returns the same contacts
\* (same pairs, points, normals and depths) in every solver iteration: no
\* step of the iterations (a check_collision, a resolve_interpenetration,
\* the end of an iteration) changes what check_collision returns, because
\* the solver changes velocities only and contact generation reads positions
\* and shapes only.
C22_ContactsSameInEveryIteration ==
    [][(Solving /\ Solving') =>
           check_collision(objects') = check_collision(objects)]_vars

\* a later iteration of a step has just called check_collision and got
\* contacts, after the solver changed a velocity in this step, the first
\* (the bodies of a pile start at rest or moving along x, and gravity is an
\* accumulated force until update)
C22_Witness ==
    /\ pc = "resolve"
    /\ last.op = "check"
    /\ iter >= 2
    /\ Len(contacts) >= 2
    /\ steps = 0
    /\ \E i \in 1..Len(objects) :
           /\ VFinite(objects[i].body.vel)
           /\ objects[i].body.vel[2] # Zero

-----------------------------------------------------------------------------
(* Claims about linear momentum (SpecPair) *)

\* the linear momentum of body i of objs: its velocity over its inverse mass
Momentum(objs, i) == VDivS(objs[i].body.vel, objs[i].body.inverse_mass)

\* the total linear momentum of the two bodies of the last contact resolved
PairMomentum(objs) ==
    VAdd(Momentum(objs, last.contact.body_a_index),
         Momentum(objs, last.contact.body_b_index))

\* the last contact resolved is between two bodies that are not static and
\* have positive inverse masses
BothMovable ==
    \A i \in { last.contact.body_a_index, last.contact.body_b_index } :
        /\ ~last.before[i].body.is_static
        /\ FGt(last.before[i].body.inverse_mass, Zero)

\* the pair's total momentum is what it was before the call, up to rounding
MomentumKept ==
    \A k \in 1..2 : Near(PairMomentum(objects)[k], PairMomentum(last.before)[k])

\* C23: for a contact between two non-static bodies with positive inverse
\* masses resolve_interpenetration applies equal and opposite impulses: the
\* total linear momentum vel_A / inverse_mass_A + vel_B / inverse_mass_B is
\* the same after the call as before it, and so after any sequence of calls.
C23_MomentumConserved ==
    (Resolved /\ BothMovable) => MomentumKept

\* the same of the contacts whose normal is a finite vector
C23_MomentumConservedFiniteNormal ==
    (Resolved /\ BothMovable /\ VFinite(last.contact.normal)) => MomentumKept

\* an impulse has been exchanged between bodies of unequal inverse masses,
\* and the total momentum is kept
C23_Witness ==
    /\ Resolved
    /\ BothMovable
    /\ last.before[1].body.inverse_mass # last.before[2].body.inverse_mass
    /\ FGt(last.p_n, Zero)
    /\ ~VelocitiesKept
    /\ MomentumKept

-----------------------------------------------------------------------------
(* Claims about the impulse on a circle in contact with a box (SpecPair) *)

Sgn(n) == IF n > 0 THEN 1 ELSE IF n < 0 THEN -1 ELSE 0

\* the last contact resolved has the circle of object 1 as body A and the
\* box of object 2 as body B, and the circle's velocity was and is finite
CircleOnBoxResolved ==
    /\ Resolved
    /\ KindA = "Circle" /\ KindB = "AABB"
    /\ last.contact.body_a_index = 1 /\ last.contact.body_b_index = 2
    /\ VFinite(last.before[1].body.vel)
    /\ VFinite(objects[1].body.vel)

\* what the call added to the circle's velocity along axis k, in grid steps
CircleImpulse(k) == objects[1].body.vel[k][1] - last.before[1].body.vel[k][1]

\* the impulse has no component against direction (dx, dy)
Along(dx, dy) ==
    /\ CircleImpulse(1) * Sgn(dx) >= 0
    /\ CircleImpulse(2) * Sgn(dy) >= 0

\* the impulse on the circle is directed out of the box: away from the
\* nearest point of the box when the centre is outside, and through a
\* nearest face when it is inside
PushedOut ==
    IF CentreOutside THEN Along(-ToNearest(1), -ToNearest(2))
    ELSE \E f \in NearestFaces :
             Along(FaceNormal(f)[1][1], FaceNormal(f)[2][1])

\* the impulse on the circle is not zero
Pushed == CircleImpulse(1) # 0 \/ CircleImpulse(2) # 0

\* C24: the circle-box normal has the same orientation relative to the
\* bodies whether the circle's centre is outside or inside the box: in both
\* cases the impulse resolve_interpenetration applies to the dynamic circle
\* (body A, along -normal) is directed out of the box, toward or through the
\* nearest face, never deeper into the box.
C24_CircleImpulseOutOfBox ==
    CircleOnBoxResolved => PushedOut

\* it is so when the centre is outside the box
C24_OutsidePushedOut ==
    (CircleOnBoxResolved /\ CentreOutside) => PushedOut

\* and it is not when the centre is inside, nearer to one face than to the
\* others: the normal is that face's outward normal, and the circle, body A,
\* is pushed along its opposite, away from the face and deeper into the box
C24_InsidePushedIn ==
    (CircleOnBoxResolved /\ CentreInside /\ Pushed /\ NearestFaces = { LastNearestFace }) =>
        /\ ~PushedOut
        /\ Along(-FaceNormal(LastNearestFace)[1][1],
                 -FaceNormal(LastNearestFace)[2][1])

\* a circle whose centre is outside the box has been pushed
C24_OutsideWitness ==
    CircleOnBoxResolved /\ CentreOutside /\ Pushed

\* a circle whose centre is inside the box, nearest to its left face, has
\* been pushed
C24_InsideWitness ==
    /\ CircleOnBoxResolved
    /\ CentreInside
    /\ NearestFaces = { 1 }
    /\ Pushed
=============================================================================
